---- MODULE Spec2Model ----
(***************************************************************************)
(* Model of the Artemis installer mock-up (src/src/main.rs): the startup   *)
(* of the terminal, the render / read / dispatch / spinner loop of main,   *)
(* the three screens, and the text layout helpers center_line and          *)
(* center_text.                                                            *)
(***************************************************************************)
EXTENDS Integers, Sequences, FiniteSets, TLC

VARIABLES
    pc,         \* position of main: the statement it executes next
    rawMode,    \* the terminal is in raw input mode
    altScreen,  \* the terminal shows the alternate screen
    step,       \* main's local `step`
    spinner,    \* main's local `spinner`
    key,        \* the event returned by the last event::read()
    result,     \* what main did: "none" while running, "ok", "err", "panic"
    frame,      \* the last frame drawn by terminal.draw
    input,      \* events typed by the user and not yet read
    delivered,  \* history: number of events the user has typed
    renders,    \* history: number of frames drawn
    reads,      \* history: number of events read
    nEnter,     \* history: number of Enter key events dispatched
    trace,      \* history: the kinds of step main has taken so far
    call,       \* arguments of a direct call of a layout helper
    ret         \* result of that call

vars == <<pc, rawMode, altScreen, step, spinner, key, result, frame, input,
          delivered, renders, reads, nEnter, trace, call, ret>>

(***************************************************************************)
(* Bounds of the model.                                                    *)
(***************************************************************************)
MaxEvents == 6
MaxPending == 2
MaxLen == 3
MaxWidth == 8

(***************************************************************************)
(* Text.  A string is a sequence of characters; a character outside ASCII  *)
(* is written by its code point.  str::len() is the length in UTF-8 bytes, *)
(* the width of format!("{:width$}") counts characters.                    *)
(***************************************************************************)
Utf8Len(c) ==
    CASE c \in {"U+E7", "U+F1"} -> 2
      [] c = "U+2192" -> 3
      [] c \in {"U+1F680", "U+1F389"} -> 4
      [] OTHER -> 1

RECURSIVE StrLen(_)
StrLen(s) == IF s = <<>> THEN 0 ELSE Utf8Len(Head(s)) + StrLen(Tail(s))

CharCount(s) == Len(s)

saturating_sub(a, b) == IF a >= b THEN a - b ELSE 0

Spaces(n) == [i \in 1..n |-> " "]

FormatWidth(s, w) == s \o Spaces(saturating_sub(w, CharCount(s)))

Style(fg, modifier) == [fg |-> fg, modifier |-> modifier]

\* center_line with the operands of the subtraction exchanged
center_line_SwappedSub(text, width, fg, modifier) ==
    LET padding == saturating_sub(StrLen(text), width) \div 2
    IN  [text |-> FormatWidth(<<>>, padding) \o text,
         style |-> Style(fg, modifier)]

center_line(text, width, fg, modifier) ==
    LET padding == saturating_sub(width, StrLen(text)) \div 2
    IN  [text |-> FormatWidth(<<>>, padding) \o text,
         style |-> Style(fg, modifier)]

center_text(text, width, style) ==
    LET padding == saturating_sub(width, StrLen(text)) \div 2
    IN  << [text |-> FormatWidth(<<>>, padding) \o text, style |-> style] >>

(***************************************************************************)
(* The texts of the program.                                               *)
(***************************************************************************)
\* "\U0001f680 EndeavourOS Installer"
TxtHeader ==
    <<"U+1F680", " ", "E", "n", "d", "e", "a", "v", "o", "u", "r", "O", "S",
      " ", "I", "n", "s", "t", "a", "l", "l", "e", "r">>

\* "Welcome to EndeavourOS!"
TxtWelcomeTitle ==
    <<"W", "e", "l", "c", "o", "m", "e", " ", "t", "o", " ", "E", "n", "d",
      "e", "a", "v", "o", "u", "r", "O", "S", "!">>

\* "This installer will guide you through the installation process."
TxtWelcomeBody ==
    <<"T", "h", "i", "s", " ", "i", "n", "s", "t", "a", "l", "l", "e", "r",
      " ", "w", "i", "l", "l", " ", "g", "u", "i", "d", "e", " ", "y", "o",
      "u", " ", "t", "h", "r", "o", "u", "g", "h", " ", "t", "h", "e", " ",
      "i", "n", "s", "t", "a", "l", "l", "a", "t", "i", "o", "n", " ", "p",
      "r", "o", "c", "e", "s", "s", ".">>

\* "Press 'Enter' to proceed to the next step."
TxtWelcomeHint ==
    <<"P", "r", "e", "s", "s", " ", "'", "E", "n", "t", "e", "r", "'", " ",
      "t", "o", " ", "p", "r", "o", "c", "e", "e", "d", " ", "t", "o", " ",
      "t", "h", "e", " ", "n", "e", "x", "t", " ", "s", "t", "e", "p", ".">>

\* "Select your language:"
TxtLangTitle ==
    <<"S", "e", "l", "e", "c", "t", " ", "y", "o", "u", "r", " ", "l", "a",
      "n", "g", "u", "a", "g", "e", ":">>

\* "\u2192 English"
TxtLangEnglish ==
    <<"U+2192", " ", "E", "n", "g", "l", "i", "s", "h">>

\* "  Fran\xe7ais"
TxtLangFrancais ==
    <<" ", " ", "F", "r", "a", "n", "U+E7", "a", "i", "s">>

\* "  Espa\xf1ol"
TxtLangEspanol ==
    <<" ", " ", "E", "s", "p", "a", "U+F1", "o", "l">>

\* "Use arrow keys to navigate and 'Enter' to select."
TxtLangHint ==
    <<"U", "s", "e", " ", "a", "r", "r", "o", "w", " ", "k", "e", "y", "s",
      " ", "t", "o", " ", "n", "a", "v", "i", "g", "a", "t", "e", " ", "a",
      "n", "d", " ", "'", "E", "n", "t", "e", "r", "'", " ", "t", "o", " ",
      "s", "e", "l", "e", "c", "t", ".">>

\* "Installation Complete! \U0001f389"
TxtDoneTitle ==
    <<"I", "n", "s", "t", "a", "l", "l", "a", "t", "i", "o", "n", " ", "C",
      "o", "m", "p", "l", "e", "t", "e", "!", " ", "U+1F389">>

\* "You can now restart your system and enjoy EndeavourOS."
TxtDoneBody ==
    <<"Y", "o", "u", " ", "c", "a", "n", " ", "n", "o", "w", " ", "r", "e",
      "s", "t", "a", "r", "t", " ", "y", "o", "u", "r", " ", "s", "y", "s",
      "t", "e", "m", " ", "a", "n", "d", " ", "e", "n", "j", "o", "y", " ",
      "E", "n", "d", "e", "a", "v", "o", "u", "r", "O", "S", ".">>

\* "Press 'Q' to exit."
TxtDoneHint ==
    <<"P", "r", "e", "s", "s", " ", "'", "Q", "'", " ", "t", "o", " ", "e",
      "x", "i", "t", ".">>
(***************************************************************************)
(* The screens.                                                            *)
(***************************************************************************)
Paragraph(lines, title) == [lines |-> lines, title |-> title]

welcome_screen(width) ==
    Paragraph(<< center_line(TxtWelcomeTitle, width, "Magenta", "BOLD"),
                 center_line(<<>>, width, "Reset", "empty"),
                 center_line(TxtWelcomeBody, width, "Gray", "empty"),
                 center_line(<<>>, width, "Reset", "empty"),
                 center_line(TxtWelcomeHint, width, "LightGreen", "empty") >>,
              "Welcome")

\* a language screen whose marker follows the arrow key pressed last
language_selection_screen_Arrow(width) ==
    LET moved == key.kind = "Key" /\ key.code = "Up"
        first == IF moved THEN <<" ", " ">> \o SubSeq(TxtLangEnglish, 3, Len(TxtLangEnglish))
                 ELSE TxtLangEnglish
        second == IF moved THEN <<"U+2192", " ">> \o SubSeq(TxtLangFrancais, 3, Len(TxtLangFrancais))
                  ELSE TxtLangFrancais
    IN  Paragraph(<< center_line(TxtLangTitle, width, "Cyan", "BOLD"),
                     center_line(<<>>, width, "Reset", "empty"),
                     center_line(first, width, IF moved THEN "Gray" ELSE "LightGreen", "empty"),
                     center_line(second, width, IF moved THEN "LightGreen" ELSE "Gray", "empty"),
                     center_line(TxtLangEspanol, width, "Gray", "empty"),
                     center_line(<<>>, width, "Reset", "empty"),
                     center_line(TxtLangHint, width, "Gray", "empty") >>,
                  "Language Selection")

language_selection_screen(width) ==
    Paragraph(<< center_line(TxtLangTitle, width, "Cyan", "BOLD"),
                 center_line(<<>>, width, "Reset", "empty"),
                 center_line(TxtLangEnglish, width, "LightGreen", "empty"),
                 center_line(TxtLangFrancais, width, "Gray", "empty"),
                 center_line(TxtLangEspanol, width, "Gray", "empty"),
                 center_line(<<>>, width, "Reset", "empty"),
                 center_line(TxtLangHint, width, "Gray", "empty") >>,
              "Language Selection")

completion_screen(width) ==
    Paragraph(<< center_line(TxtDoneTitle, width, "LightGreen", "BOLD"),
                 center_line(<<>>, width, "Reset", "empty"),
                 center_line(TxtDoneBody, width, "Gray", "empty"),
                 center_line(<<>>, width, "Reset", "empty"),
                 center_line(TxtDoneHint, width, "LightCyan", "empty") >>,
              "Completion")

spinner_frames == << <<"|">>, <<"/">>, <<"-">>, <<"\\">> >>

\* spinner_frames[frame]: an index outside the array panics
SpinnerInBounds(f) == f >= 0 /\ f < Len(spinner_frames)

spinner_animation(f) == spinner_frames[f + 1]

\* the match with the arms of steps 1 and 2 exchanged
Content_Swapped(s, width) ==
    CASE s = 0 -> welcome_screen(width)
      [] s = 1 -> completion_screen(width)
      [] OTHER -> language_selection_screen(width)

\* the `match step` of the draw closure
Content(s, width) ==
    CASE s = 0 -> welcome_screen(width)
      [] s = 1 -> language_selection_screen(width)
      [] OTHER -> completion_screen(width)

\* what the draw closure puts on the screen
Frame(s, sp, width) ==
    [step    |-> s,
     spinner |-> sp,
     width   |-> width,
     header  |-> center_text(TxtHeader, width, Style("LightCyan", "BOLD")),
     content |-> Content(s, width),
     footer  |-> center_text(spinner_animation(sp), width, Style("Gray", "empty"))]

NoFrame == [step |-> -1, spinner |-> -1, width |-> 0, header |-> <<>>,
            content |-> Paragraph(<<>>, ""), footer |-> <<>>]

(***************************************************************************)
(* Input events.                                                           *)
(***************************************************************************)
KeyEvent(code) == [kind |-> "Key", code |-> code]
OtherEvent(kind) == [kind |-> kind, code |-> ""]

KeyCodes == {"Enter", "q", "Q", "Up"}
Events == {KeyEvent(c) : c \in KeyCodes} \cup {OtherEvent("Resize")}
NoEvent == OtherEvent("none")

\* widths of the terminal at the time of a draw
FrameWidths == {0, 20, 80}

NoTrace == [rawEnabled |-> FALSE, startupFailed |-> FALSE,
            loopFailed |-> FALSE, cleanupFailed |-> FALSE,
            quit |-> FALSE, ignored |-> FALSE]

NoCall == [fn |-> "none", text |-> <<>>, width |-> 0]
NoRet == [fn |-> "none", val |-> <<>>]

(***************************************************************************)
(* main.  Every `?` returns the error to the caller of main at once: the   *)
(* statements after it, the cleanup at the end of main included, do not    *)
(* run.  Dropping the Terminal and its backend neither disables raw mode   *)
(* nor leaves the alternate screen.                                        *)
(***************************************************************************)
ReturnErr(cause) ==
    /\ pc' = "done"
    /\ result' = "err"
    /\ trace' = [trace EXCEPT ![cause] = TRUE]

\* enable_raw_mode()?
EnableRawModeOk ==
    /\ pc = "enable_raw"
    /\ rawMode' = TRUE
    /\ trace' = [trace EXCEPT !.rawEnabled = TRUE]
    /\ pc' = "enter_alt"
    /\ UNCHANGED <<altScreen, step, spinner, key, result, frame, input,
                   delivered, renders, reads, nEnter, call, ret>>

EnableRawModeErr ==
    /\ pc = "enable_raw"
    /\ ReturnErr("startupFailed")
    /\ UNCHANGED <<rawMode, altScreen, step, spinner, key, frame, input,
                   delivered, renders, reads, nEnter, call, ret>>

\* execute!(stdout, EnterAlternateScreen)?
EnterAlternateScreenOk ==
    /\ pc = "enter_alt"
    /\ altScreen' = TRUE
    /\ pc' = "new_terminal"
    /\ UNCHANGED <<rawMode, step, spinner, key, result, frame, input,
                   delivered, renders, reads, nEnter, trace, call, ret>>

\* the error of EnterAlternateScreen dropped instead of returned
EnterAlternateScreenErr_Swallowed ==
    /\ pc = "enter_alt"
    /\ pc' = "new_terminal"
    /\ trace' = [trace EXCEPT !.startupFailed = TRUE]
    /\ UNCHANGED <<rawMode, altScreen, step, spinner, key, result, frame, input,
                   delivered, renders, reads, nEnter, call, ret>>

EnterAlternateScreenErr ==
    /\ pc = "enter_alt"
    /\ ReturnErr("startupFailed")
    /\ UNCHANGED <<rawMode, altScreen, step, spinner, key, frame, input,
                   delivered, renders, reads, nEnter, call, ret>>

\* a loop that waits for the first event before it draws anything
NewTerminalOk_ReadFirst ==
    /\ pc = "new_terminal"
    /\ step' = 0
    /\ spinner' = 0
    /\ pc' = "read"
    /\ UNCHANGED <<rawMode, altScreen, key, result, frame, input,
                   delivered, renders, reads, nEnter, trace, call, ret>>

\* Terminal::new(backend)?; let mut step = 0; let mut spinner = 0;
NewTerminalOk ==
    /\ pc = "new_terminal"
    /\ step' = 0
    /\ spinner' = 0
    /\ pc' = "draw"
    /\ UNCHANGED <<rawMode, altScreen, key, result, frame, input,
                   delivered, renders, reads, nEnter, trace, call, ret>>

NewTerminalErr ==
    /\ pc = "new_terminal"
    /\ ReturnErr("startupFailed")
    /\ UNCHANGED <<rawMode, altScreen, step, spinner, key, frame, input,
                   delivered, renders, reads, nEnter, call, ret>>

\* The frames of every step, phase and width the draw closure can be handed,
\* computed once; DrawnFrame is Frame.
FrameTable == [s \in 0..2, sp \in 0..3, w \in FrameWidths |-> Frame(s, sp, w)]

DrawnFrame(s, sp, w) ==
    IF s \in 0..2 /\ sp \in 0..3 /\ w \in FrameWidths
    THEN FrameTable[s, sp, w]
    ELSE Frame(s, sp, w)

\* terminal.draw(|f| { ... })?  with f.size().width = w.
\* spinner_frames[frame] with frame out of bounds panics inside the closure.
DrawOk ==
    /\ pc = "draw"
    /\ IF SpinnerInBounds(spinner)
       THEN /\ \E w \in FrameWidths : frame' = DrawnFrame(step, spinner, w)
            /\ renders' = renders + 1
            /\ pc' = "read"
            /\ UNCHANGED result
       ELSE /\ pc' = "done"
            /\ result' = "panic"
            /\ UNCHANGED <<frame, renders>>
    /\ UNCHANGED <<rawMode, altScreen, step, spinner, key, input,
                   delivered, reads, nEnter, trace, call, ret>>

\* a failed draw tried again instead of returned
DrawErr_Retry ==
    /\ pc = "draw"
    /\ ~trace.loopFailed
    /\ trace' = [trace EXCEPT !.loopFailed = TRUE]
    /\ UNCHANGED <<pc, rawMode, altScreen, step, spinner, key, result, frame,
                   input, delivered, renders, reads, nEnter, call, ret>>

DrawErr ==
    /\ pc = "draw"
    /\ ReturnErr("loopFailed")
    /\ UNCHANGED <<rawMode, altScreen, step, spinner, key, frame, input,
                   delivered, renders, reads, nEnter, call, ret>>

\* a read that polls with a timeout: with no event it gives up and the
\* iteration goes on
ReadOk_Timeout ==
    /\ pc = "read"
    /\ IF input = <<>>
       THEN /\ pc' = "advance"
            /\ UNCHANGED <<key, input, reads>>
       ELSE /\ key' = Head(input)
            /\ input' = Tail(input)
            /\ reads' = reads + 1
            /\ pc' = "dispatch"
    /\ UNCHANGED <<rawMode, altScreen, step, spinner, result, frame,
                   delivered, renders, nEnter, trace, call, ret>>

\* event::read()?  blocks until the terminal has an event
ReadOk ==
    /\ pc = "read"
    /\ input # <<>>
    /\ key' = Head(input)
    /\ input' = Tail(input)
    /\ reads' = reads + 1
    /\ pc' = "dispatch"
    /\ UNCHANGED <<rawMode, altScreen, step, spinner, result, frame,
                   delivered, renders, nEnter, trace, call, ret>>

ReadErr ==
    /\ pc = "read"
    /\ ReturnErr("loopFailed")
    /\ UNCHANGED <<rawMode, altScreen, step, spinner, key, frame, input,
                   delivered, renders, reads, nEnter, call, ret>>

\* Dispatch with `step = step + 1 % 3`: the step is not wrapped
Dispatch_NoWrap ==
    /\ pc = "dispatch"
    /\ IF key.kind = "Key" /\ key.code = "q"
       THEN /\ pc' = "disable_raw"
            /\ trace' = [trace EXCEPT !.quit = TRUE]
            /\ UNCHANGED <<step, nEnter>>
       ELSE IF key.kind = "Key" /\ key.code = "Enter"
       THEN /\ step' = step + 1
            /\ nEnter' = nEnter + 1
            /\ pc' = "advance"
            /\ UNCHANGED trace
       ELSE /\ pc' = "advance"
            /\ trace' = [trace EXCEPT !.ignored = TRUE]
            /\ UNCHANGED <<step, nEnter>>
    /\ UNCHANGED <<rawMode, altScreen, spinner, key, result, frame, input,
                   delivered, renders, reads, call, ret>>

\* Dispatch where 'q' only ends the loop at the end of the iteration
Dispatch_QuitLate ==
    /\ pc = "dispatch"
    /\ IF key.kind = "Key" /\ key.code = "q"
       THEN /\ pc' = "advance"
            /\ trace' = [trace EXCEPT !.quit = TRUE]
            /\ UNCHANGED <<step, nEnter>>
       ELSE IF key.kind = "Key" /\ key.code = "Enter"
       THEN /\ step' = (step + 1) % 3
            /\ nEnter' = nEnter + 1
            /\ pc' = "advance"
            /\ UNCHANGED trace
       ELSE /\ pc' = "advance"
            /\ trace' = [trace EXCEPT !.ignored = TRUE]
            /\ UNCHANGED <<step, nEnter>>
    /\ UNCHANGED <<rawMode, altScreen, spinner, key, result, frame, input,
                   delivered, renders, reads, call, ret>>

\* Dispatch that compares the key without regard to case
Dispatch_AnyCaseQuit ==
    /\ pc = "dispatch"
    /\ IF key.kind = "Key" /\ key.code \in {"q", "Q"}
       THEN /\ pc' = "disable_raw"
            /\ trace' = [trace EXCEPT !.quit = TRUE]
            /\ UNCHANGED <<step, nEnter>>
       ELSE IF key.kind = "Key" /\ key.code = "Enter"
       THEN /\ step' = (step + 1) % 3
            /\ nEnter' = nEnter + 1
            /\ pc' = "advance"
            /\ UNCHANGED trace
       ELSE /\ pc' = "advance"
            /\ trace' = [trace EXCEPT !.ignored = TRUE]
            /\ UNCHANGED <<step, nEnter>>
    /\ UNCHANGED <<rawMode, altScreen, spinner, key, result, frame, input,
                   delivered, renders, reads, call, ret>>

\* Dispatch where the Enter arm advances the spinner too
Dispatch_EnterAdvances ==
    /\ pc = "dispatch"
    /\ IF key.kind = "Key" /\ key.code = "q"
       THEN /\ pc' = "disable_raw"
            /\ trace' = [trace EXCEPT !.quit = TRUE]
            /\ UNCHANGED <<step, nEnter>>
            /\ UNCHANGED spinner
       ELSE IF key.kind = "Key" /\ key.code = "Enter"
       THEN /\ step' = (step + 1) % 3
            /\ nEnter' = nEnter + 1
            /\ pc' = "advance"
            /\ UNCHANGED trace
            /\ spinner' = (spinner + 1) % 4
       ELSE /\ pc' = "advance"
            /\ trace' = [trace EXCEPT !.ignored = TRUE]
            /\ UNCHANGED <<step, nEnter>>
            /\ UNCHANGED spinner
    /\ UNCHANGED <<rawMode, altScreen, key, result, frame, input,
                   delivered, renders, reads, call, ret>>

\* Dispatch where Enter on the last screen ends the loop
Dispatch_ExitAfterCompletion ==
    /\ pc = "dispatch"
    /\ IF key.kind = "Key" /\ key.code = "q"
       THEN /\ pc' = "disable_raw"
            /\ trace' = [trace EXCEPT !.quit = TRUE]
            /\ UNCHANGED <<step, nEnter>>
       ELSE IF key.kind = "Key" /\ key.code = "Enter"
       THEN /\ step' = (step + 1) % 3
            /\ nEnter' = nEnter + 1
            /\ pc' = IF step = 2 THEN "disable_raw" ELSE "advance"
            /\ UNCHANGED trace
       ELSE /\ pc' = "advance"
            /\ trace' = [trace EXCEPT !.ignored = TRUE]
            /\ UNCHANGED <<step, nEnter>>
    /\ UNCHANGED <<rawMode, altScreen, spinner, key, result, frame, input,
                   delivered, renders, reads, call, ret>>

\* Dispatch where an event that is not a key starts the next iteration at once
Dispatch_SkipNonKey ==
    /\ pc = "dispatch"
    /\ IF key.kind = "Key" /\ key.code = "q"
       THEN /\ pc' = "disable_raw"
            /\ trace' = [trace EXCEPT !.quit = TRUE]
            /\ UNCHANGED <<step, nEnter>>
       ELSE IF key.kind = "Key" /\ key.code = "Enter"
       THEN /\ step' = (step + 1) % 3
            /\ nEnter' = nEnter + 1
            /\ pc' = "advance"
            /\ UNCHANGED trace
       ELSE /\ pc' = IF key.kind = "Key" THEN "advance" ELSE "draw"
            /\ trace' = [trace EXCEPT !.ignored = TRUE]
            /\ UNCHANGED <<step, nEnter>>
    /\ UNCHANGED <<rawMode, altScreen, spinner, key, result, frame, input,
                   delivered, renders, reads, call, ret>>

\* if let Event::Key(key) = ... { match key.code { ... } }
Dispatch ==
    /\ pc = "dispatch"
    /\ IF key.kind = "Key" /\ key.code = "q"
       THEN /\ pc' = "disable_raw"
            /\ trace' = [trace EXCEPT !.quit = TRUE]
            /\ UNCHANGED <<step, nEnter>>
       ELSE IF key.kind = "Key" /\ key.code = "Enter"
       THEN /\ step' = (step + 1) % 3
            /\ nEnter' = nEnter + 1
            /\ pc' = "advance"
            /\ UNCHANGED trace
       ELSE /\ pc' = "advance"
            /\ trace' = [trace EXCEPT !.ignored = TRUE]
            /\ UNCHANGED <<step, nEnter>>
    /\ UNCHANGED <<rawMode, altScreen, spinner, key, result, frame, input,
                   delivered, renders, reads, call, ret>>

\* Advance without the wrap-around
Advance_NoWrap ==
    /\ pc = "advance"
    /\ spinner' = spinner + 1
    /\ pc' = "sleep"
    /\ UNCHANGED <<rawMode, altScreen, step, key, result, frame, input,
                   delivered, renders, reads, nEnter, trace, call, ret>>

\* spinner = (spinner + 1) % 4;
Advance ==
    /\ pc = "advance"
    /\ spinner' = (spinner + 1) % 4
    /\ pc' = "sleep"
    /\ UNCHANGED <<rawMode, altScreen, step, key, result, frame, input,
                   delivered, renders, reads, nEnter, trace, call, ret>>

\* the loop redrawing only on demand: after the sleep it reads again
Sleep_NoRedraw ==
    /\ pc = "sleep"
    /\ pc' = "read"
    /\ UNCHANGED <<rawMode, altScreen, step, spinner, key, result, frame,
                   input, delivered, renders, reads, nEnter, trace, call, ret>>

\* thread::sleep(Duration::from_millis(200));
Sleep ==
    /\ pc = "sleep"
    /\ pc' = "draw"
    /\ UNCHANGED <<rawMode, altScreen, step, spinner, key, result, frame,
                   input, delivered, renders, reads, nEnter, trace, call, ret>>

\* a failed disable_raw_mode ignored, the cleanup going on
DisableRawModeErr_Continue ==
    /\ pc = "disable_raw"
    /\ pc' = "leave_alt"
    /\ trace' = [trace EXCEPT !.cleanupFailed = TRUE]
    /\ UNCHANGED <<rawMode, altScreen, step, spinner, key, result, frame, input,
                   delivered, renders, reads, nEnter, call, ret>>

\* disable_raw_mode()?
DisableRawModeOk ==
    /\ pc = "disable_raw"
    /\ rawMode' = FALSE
    /\ pc' = "leave_alt"
    /\ UNCHANGED <<altScreen, step, spinner, key, result, frame, input,
                   delivered, renders, reads, nEnter, trace, call, ret>>

DisableRawModeErr ==
    /\ pc = "disable_raw"
    /\ ReturnErr("cleanupFailed")
    /\ UNCHANGED <<rawMode, altScreen, step, spinner, key, frame, input,
                   delivered, renders, reads, nEnter, call, ret>>

\* execute!(terminal.backend_mut(), LeaveAlternateScreen)?; Ok(())
LeaveAlternateScreenOk ==
    /\ pc = "leave_alt"
    /\ altScreen' = FALSE
    /\ pc' = "done"
    /\ result' = "ok"
    /\ UNCHANGED <<rawMode, step, spinner, key, frame, input,
                   delivered, renders, reads, nEnter, trace, call, ret>>

LeaveAlternateScreenErr ==
    /\ pc = "leave_alt"
    /\ ReturnErr("cleanupFailed")
    /\ UNCHANGED <<rawMode, altScreen, step, spinner, key, frame, input,
                   delivered, renders, reads, nEnter, call, ret>>

\* the user presses a key or resizes the terminal while the program runs
UserInput ==
    /\ result = "none"
    /\ delivered < MaxEvents
    /\ Len(input) < MaxPending
    /\ \E e \in Events : input' = Append(input, e)
    /\ delivered' = delivered + 1
    /\ UNCHANGED <<pc, rawMode, altScreen, step, spinner, key, result, frame,
                   renders, reads, nEnter, trace, call, ret>>

Init ==
    /\ pc = "enable_raw"
    /\ rawMode = FALSE
    /\ altScreen = FALSE
    /\ step = 0
    /\ spinner = 0
    /\ key = NoEvent
    /\ result = "none"
    /\ frame = NoFrame
    /\ input = <<>>
    /\ delivered = 0
    /\ renders = 0
    /\ reads = 0
    /\ nEnter = 0
    /\ trace = NoTrace
    /\ call = NoCall
    /\ ret = NoRet

Next ==
    \/ EnableRawModeOk
    \/ EnableRawModeErr
    \/ EnterAlternateScreenOk
    \/ EnterAlternateScreenErr
    \/ NewTerminalOk
    \/ NewTerminalErr
    \/ DrawOk
    \/ DrawErr
    \/ ReadOk
    \/ ReadErr
    \/ Dispatch
    \/ Advance
    \/ Sleep
    \/ DisableRawModeOk
    \/ DisableRawModeErr
    \/ LeaveAlternateScreenOk
    \/ LeaveAlternateScreenErr
    \/ UserInput

Spec == Init /\ [][Next]_vars

(***************************************************************************)
(* The layout helpers called directly, on texts and widths drawn from      *)
(* bounded sets: every text of at most MaxLen characters over an alphabet  *)
(* with characters of 1, 2, 3 and 4 bytes, and the texts of the program;   *)
(* every width up to MaxWidth, and the widths of the frames.               *)
(***************************************************************************)
Alphabet == {"a", " ", "U+E7", "U+2192", "U+1F680"}

RECURSIVE SeqsUpTo(_, _)
SeqsUpTo(S, n) ==
    IF n = 0 THEN {<<>>}
    ELSE LET shorter == SeqsUpTo(S, n - 1)
         IN  shorter \cup {Append(t, c) : t \in shorter, c \in S}

ProgramTexts == {TxtHeader, TxtWelcomeTitle, TxtWelcomeBody, TxtWelcomeHint,
                 TxtLangTitle, TxtLangEnglish, TxtLangFrancais, TxtLangEspanol,
                 TxtLangHint, TxtDoneTitle, TxtDoneBody, TxtDoneHint}

Texts == SeqsUpTo(Alphabet, MaxLen) \cup ProgramTexts
Widths == 0..MaxWidth \cup FrameWidths

CallCenterLine ==
    /\ call.fn = "center_line"
    /\ ret = NoRet
    /\ ret' = [fn  |-> "center_line",
               val |-> << center_line(call.text, call.width, "Gray", "empty") >>]
    /\ UNCHANGED <<pc, rawMode, altScreen, step, spinner, key, result, frame,
                   input, delivered, renders, reads, nEnter, trace, call>>

CallCenterText ==
    /\ call.fn = "center_text"
    /\ ret = NoRet
    /\ ret' = [fn  |-> "center_text",
               val |-> center_text(call.text, call.width, Style("Gray", "empty"))]
    /\ UNCHANGED <<pc, rawMode, altScreen, step, spinner, key, result, frame,
                   input, delivered, renders, reads, nEnter, trace, call>>

InitCenter ==
    /\ pc = "enable_raw"
    /\ rawMode = FALSE
    /\ altScreen = FALSE
    /\ step = 0
    /\ spinner = 0
    /\ key = NoEvent
    /\ result = "none"
    /\ frame = NoFrame
    /\ input = <<>>
    /\ delivered = 0
    /\ renders = 0
    /\ reads = 0
    /\ nEnter = 0
    /\ trace = NoTrace
    /\ call \in [fn : {"center_line", "center_text"}, text : Texts, width : Widths]
    /\ ret = NoRet

NextCenter ==
    \/ CallCenterLine
    \/ CallCenterText

SpecCenter == InitCenter /\ [][NextCenter]_vars

\* main is the only thread and always goes on: a step that can be taken
\* (a draw, a read with an event waiting, a cleanup call) is taken or fails
MainStep ==
    \/ EnableRawModeOk
    \/ EnableRawModeErr
    \/ EnterAlternateScreenOk
    \/ EnterAlternateScreenErr
    \/ NewTerminalOk
    \/ NewTerminalErr
    \/ DrawOk
    \/ DrawErr
    \/ ReadOk
    \/ ReadErr
    \/ Dispatch
    \/ Advance
    \/ Sleep
    \/ DisableRawModeOk
    \/ DisableRawModeErr
    \/ LeaveAlternateScreenOk
    \/ LeaveAlternateScreenErr

SpecFair == Init /\ [][Next]_vars /\ WF_vars(MainStep)

TypeOK ==
    /\ pc \in {"enable_raw", "enter_alt", "new_terminal", "draw", "read",
               "dispatch", "advance", "sleep", "disable_raw", "leave_alt", "done"}
    /\ rawMode \in BOOLEAN /\ altScreen \in BOOLEAN
    /\ result \in {"none", "ok", "err", "panic"}
    /\ key \in Events \cup {NoEvent}
    /\ Len(input) <= MaxPending
    /\ delivered \in 0..MaxEvents

(***************************************************************************)
(* Properties.                                                             *)
(***************************************************************************)
InLoop == pc \in {"draw", "read", "dispatch", "advance", "sleep"}

\* C1: whenever main has ended after raw mode was enabled, raw mode has been
\* disabled and the alternate screen has been left.
C1_ReleasedOnEveryExit ==
    (pc = "done" /\ trace.rawEnabled) => (~rawMode /\ ~altScreen)

\* C2: step is in {0,1,2} and spinner is in {0,1,2,3} in every reachable
\* state, so the lookup spinner_frames[spinner] of every draw is in bounds
\* and never panics.
C2_Ranges ==
    /\ step \in 0..2
    /\ spinner \in 0..3
    /\ (pc = "draw" => SpinnerInBounds(spinner))
    /\ result # "panic"

C2_Witness == pc = "draw" /\ step = 2 /\ spinner = 3 /\ renders = 3 /\ nEnter = 2

\* C3: every Enter key event sets step to (step + 1) mod 3: after n Enter
\* events, with other keys in between, step is n mod 3, so three Enter events
\* bring step back and one or two never do.
C3_EnterCycle ==
    /\ [](step = nEnter % 3)
    /\ [][(pc = "dispatch" /\ pc' # pc /\ key = KeyEvent("Enter"))
            => step' = (step + 1) % 3 /\ step' # step]_vars

C3_Witness == nEnter = 3 /\ step = 0 /\ trace.ignored /\ pc = "advance"

\* C4: dispatching 'q' ends the loop and leaves step and spinner as they
\* were; after it no frame is drawn, no event is read, and step and spinner
\* never change again.
C4_Quit ==
    /\ [][(pc = "dispatch" /\ pc' # pc /\ key = KeyEvent("q"))
            => step' = step /\ spinner' = spinner /\ pc' = "disable_raw"]_vars
    /\ [][trace.quit
            => /\ step' = step /\ spinner' = spinner
               /\ renders' = renders /\ reads' = reads
               /\ frame' = frame]_vars
    /\ [](trace.quit => ~InLoop)

C4_Witness == trace.quit /\ result = "ok" /\ step = 2 /\ spinner = 3

\* C5: a key other than Enter and lowercase 'q' (uppercase 'Q', an arrow key)
\* leaves step unchanged, does not end the loop and raises no error.
C5_OtherKeysIgnored ==
    [][(pc = "dispatch" /\ pc' # pc /\ key.kind = "Key" /\ key.code \notin {"Enter", "q"})
         => step' = step /\ pc' = "advance" /\ result' = "none"]_vars

C5_Witness == pc = "advance" /\ key = KeyEvent("Q") /\ trace.ignored /\ step = 1

\* C6: every frame shows the screen of the current step (0 Welcome,
\* 1 LanguageSelection, 2 Completion) whatever the spinner and the keys
\* pressed before, and two draws with the same step and width show the same
\* content.
C6_ScreenOfStep ==
    /\ [](pc = "read" => frame.step = step)
    /\ [](renders > 0 =>
            /\ frame.step = 0 => frame.content = welcome_screen(frame.width)
            /\ frame.step = 1 => frame.content = language_selection_screen(frame.width)
            /\ frame.step = 2 => frame.content = completion_screen(frame.width))
    /\ [][(renders' = renders + 1 /\ renders > 0
            /\ frame'.step = frame.step /\ frame'.width = frame.width)
            => frame'.content = frame.content]_vars

C6_Witness ==
    /\ pc = "read" /\ renders = 5 /\ nEnter = 4
    /\ frame.step = 1 /\ frame.spinner = 0
    /\ frame.content.title = "Language Selection"

\* C7: when a startup step fails, main ends with an error before the loop
\* runs: no frame is drawn and no event is read.
C7_StartupFailure ==
    trace.startupFailed =>
        pc = "done" /\ result = "err" /\ renders = 0 /\ reads = 0

C7_Witness == trace.startupFailed /\ rawMode /\ altScreen /\ input # <<>>

\* C8: for every text with length(text) <= width, counting characters, the
\* helper returns floor((width - length(text)) / 2) spaces followed by the
\* text, and nothing after it.
C8_PaddingByCharacters ==
    (ret.fn # "none" /\ CharCount(call.text) <= call.width) =>
        LET padding == (call.width - CharCount(call.text)) \div 2
        IN  /\ ret.val[1].text = Spaces(padding) \o call.text
            /\ Len(ret.val[1].text) = padding + CharCount(call.text)

\* the same with length(text) counted in UTF-8 bytes, as str::len() does
PaddingByBytes ==
    (ret.fn # "none" /\ StrLen(call.text) <= call.width) =>
        ret.val[1].text = Spaces((call.width - StrLen(call.text)) \div 2) \o call.text

\* C9: for every width smaller than the length of the text, width 0
\* included, the helper returns the text alone, with no leading space.
C9_NoPaddingWhenNarrow ==
    (ret.fn # "none" /\ call.width < StrLen(call.text)) =>
        /\ Len(ret.val) = 1
        /\ ret.val[1].text = call.text

C9_Witness ==
    /\ ret.fn = "center_line" /\ call.width = 0
    /\ call.text = TxtLangEnglish /\ ret.val[1].text = TxtLangEnglish

\* C10: every iteration that does not end the loop advances the spinner by
\* one modulo 4 whatever the event was; the dispatch of the event leaves the
\* spinner alone; the n-th frame shows phase (n - 1) mod 4, so the first five
\* frames show 0, 1, 2, 3, 0.
C10_SpinnerPerIteration ==
    /\ [](renders > 0 => frame.spinner = (renders - 1) % 4)
    /\ [][(pc = "dispatch" /\ pc' # pc) => spinner' = spinner]_vars
    /\ [][(pc = "advance" /\ pc' # pc) => spinner' = (spinner + 1) % 4]_vars

C10_Witness ==
    /\ renders = 5 /\ frame.spinner = 0 /\ pc = "read"
    /\ nEnter > 0 /\ trace.ignored

\* C11: an iteration runs draw, read, dispatch, spinner advance, sleep in
\* this order, with one draw and one read each: the number of frames drawn
\* equals the number of events read or exceeds it by one, and a frame shows
\* the step and spinner left by the iteration before.
C11_IterationOrder ==
    /\ [](renders = reads \/ renders = reads + 1)
    /\ [](pc = "read" => renders = reads + 1 /\ frame.step = step /\ frame.spinner = spinner)
    /\ [](pc \in {"draw", "dispatch", "advance", "sleep"} => renders = reads)
    /\ [][(InLoop /\ InLoop' /\ pc' # pc) =>
            \/ pc = "draw" /\ pc' = "read" /\ renders' = renders + 1 /\ reads' = reads
            \/ pc = "read" /\ pc' = "dispatch" /\ reads' = reads + 1 /\ renders' = renders
            \/ pc = "dispatch" /\ pc' = "advance" /\ renders' = renders /\ reads' = reads
            \/ pc = "advance" /\ pc' = "sleep" /\ renders' = renders /\ reads' = reads
            \/ pc = "sleep" /\ pc' = "draw" /\ renders' = renders /\ reads' = reads]_vars

C11_Witness ==
    /\ pc = "read" /\ renders = 4 /\ reads = 3
    /\ frame.step = 2 /\ frame.spinner = 3 /\ trace.ignored

\* C12: the read blocks without a timeout: while no event has arrived main
\* stays at the read (or the read fails), and step, spinner and the frame do
\* not change.
C12_BlockingRead ==
    [][(pc = "read" /\ input = <<>>) =>
         /\ pc' = "read" \/ (pc' = "done" /\ result' = "err")
         /\ step' = step /\ spinner' = spinner
         /\ frame' = frame /\ renders' = renders /\ reads' = reads]_vars

C12_Witness == pc = "read" /\ input = <<>> /\ reads = 2 /\ renders = 3 /\ spinner = 2

\* C13: a failed draw or a failed read is not retried: main has ended with
\* an error, and afterwards no frame is drawn, no event is read and step and
\* spinner do not change.
C13_FailureIsFatal ==
    /\ [](trace.loopFailed => pc = "done" /\ result = "err")
    /\ [][trace.loopFailed =>
            /\ renders' = renders /\ reads' = reads /\ frame' = frame
            /\ step' = step /\ spinner' = spinner /\ pc' = pc]_vars
    /\ [][(pc \in {"draw", "read"} /\ pc' \notin {"draw", "read", "dispatch"})
            => pc' = "done" /\ result' = "err" /\ trace'.loopFailed]_vars

C13_Witness ==
    /\ trace.loopFailed /\ pc = "done" /\ result = "err"
    /\ renders = 3 /\ reads = 2 /\ input # <<>> /\ rawMode

QPending == \E i \in 1..Len(input) : input[i] = KeyEvent("q")
NoFailure == ~trace.startupFailed /\ ~trace.loopFailed /\ ~trace.cleanupFailed

C15_FirstFrame ==
    /\ [][(pc = "new_terminal" /\ pc' # pc /\ pc' # "done")
            => pc' = "draw" /\ step' = 0 /\ spinner' = 0]_vars
    /\ [](renders = 0 => reads = 0 /\ pc # "read" /\ pc # "dispatch")
    /\ [](renders = 1 /\ reads = 0 =>
            /\ frame.step = 0 /\ frame.spinner = 0
            /\ frame.content = welcome_screen(frame.width)
            /\ frame.footer = center_text(<<"|">>, frame.width, Style("Gray", "empty")))

C15_Witness ==
    /\ pc = "read" /\ renders = 1 /\ reads = 0 /\ input # <<>>
    /\ frame.content.title = "Welcome" /\ frame.spinner = 0

Marked(line) == \E i \in 1..Len(line.text) : line.text[i] = "U+2192"

EndsWith(t, suffix) ==
    /\ Len(t) >= Len(suffix)
    /\ SubSeq(t, Len(t) - Len(suffix) + 1, Len(t)) = suffix

\* C16: whenever the language screen is drawn, whatever keys were pressed
\* before, the first option, "English", carries the marker and the
\* highlight colour and the two other options carry neither.
C16_EnglishMarked ==
    (renders > 0 /\ frame.step = 1) =>
        LET L == frame.content.lines
        IN  /\ Len(L) = 7
            /\ Marked(L[3]) /\ L[3].style.fg = "LightGreen"
            /\ EndsWith(L[3].text, <<"E", "n", "g", "l", "i", "s", "h">>)
            /\ \A i \in {4, 5} : ~Marked(L[i]) /\ L[i].style.fg = "Gray"
            /\ EndsWith(L[4].text, <<"F", "r", "a", "n", "U+E7", "a", "i", "s">>)
            /\ EndsWith(L[5].text, <<"E", "s", "p", "a", "U+F1", "o", "l">>)

C16_Witness ==
    /\ pc = "read" /\ frame.step = 1 /\ nEnter = 4
    /\ key = KeyEvent("Up") /\ Marked(frame.content.lines[3])

\* C17: an event that is not a key event leaves step unchanged and does not
\* end the loop; the iteration is completed: the spinner advances by one
\* modulo 4 and the next frame is drawn with the same step.
C17_NonKeyEvent ==
    /\ [][(pc = "dispatch" /\ pc' # pc /\ key.kind # "Key")
            => step' = step /\ spinner' = spinner /\ pc' = "advance" /\ result' = "none"]_vars
    /\ [](key.kind \notin {"Key", "none"} =>
            /\ pc \in {"dispatch", "advance"} => spinner = frame.spinner /\ step = frame.step
            /\ pc \in {"sleep", "draw"} /\ result = "none"
                 => spinner = (frame.spinner + 1) % 4 /\ step = frame.step)
    /\ [][(pc = "draw" /\ pc' = "read" /\ key.kind \notin {"Key", "none"})
            => /\ renders' = renders + 1
               /\ frame'.step = frame.step
               /\ frame'.spinner = (frame.spinner + 1) % 4]_vars

C17_Witness ==
    /\ key = OtherEvent("Resize") /\ pc = "read"
    /\ reads = 2 /\ renders = 3 /\ frame.spinner = 2 /\ frame.step = 1

\* C18: frames are drawn and events read only in raw mode on the alternate
\* screen; the cleanup runs after the loop, raw mode first, then the
\* alternate screen; a successful main has released both; when disabling raw
\* mode fails the alternate screen is not left and main returns an error.
C18_CleanupOrder ==
    /\ [](InLoop => rawMode /\ altScreen)
    /\ [][(renders' # renders \/ reads' # reads) => rawMode /\ altScreen]_vars
    /\ [][((rawMode /\ ~rawMode') \/ (altScreen /\ ~altScreen'))
            => ~InLoop /\ trace.quit]_vars
    /\ [](pc = "leave_alt" => ~rawMode /\ altScreen)
    /\ [](result = "ok" => ~rawMode /\ ~altScreen)
    /\ [](trace.cleanupFailed /\ rawMode => altScreen /\ result = "err")

C18_Witness ==
    /\ result = "ok" /\ ~rawMode /\ ~altScreen /\ renders = 3 /\ trace.quit
====
